---- MODULE Spec2Model ----
(***************************************************************************)
(* Play mode of the quiz trainer (cmds.js, playCmd): the promise chain     *)
(* findAll -> playOne* -> catch -> fin, one chain per play session.        *)
(* Every .then/.catch callback and every readline callback is one action.  *)
(* Strings are sequences of one-character strings.                         *)
(***************************************************************************)
EXTENDS Integers, Sequences, FiniteSets, TLC

\* ---- bounds ----
MaxQuizzes == 3
MaxLen == 2
NumSessions == 2
MaxWrites == 1
MaxQuizzesTwo == 1
MaxQuizzesStore == 2
MaxQuizzesJudge == 1

Sessions == 1..NumSessions

VARIABLES
  store,       \* models.quiz table: sequence of rows [id, answer]
  nextId,      \* models.quiz table: the id the next created row gets
  writes,      \* number of create / save / destroy calls so far
  active,      \* sessions whose client is connected
  pc,          \* position of each session's promise chain
  score,       \* playCmd: let score
  toBePlayed,  \* playCmd: let toBePlayed
  quiz,        \* playOne: let quiz (captured by the answer callback)
  pos,         \* playOne: let pos, the index drawn last (-1: none yet)
  out,         \* what the session wrote to its socket / readline, in order
  sinkDown,    \* the session's socket no longer accepts writes: log raises
  fetched,     \* history: findAll was fulfilled for the session
  snapshot,    \* history: the rows findAll delivered to the session
  asked,       \* history: ids of the quizzes drawn by playOne, in order
  answers,     \* history: verdict of each delivered answer, in order
  typed,       \* history: the line readline delivered last, as typed
  outcome,     \* history: which resolve() of playOne settled the session
  failed,      \* history: a collaborator rejected or raised
  closed       \* rl.close() was called on the session's readline

vars == <<store, nextId, writes, active, pc, score, toBePlayed, quiz, pos, out, sinkDown, fetched,
          snapshot, asked, answers, typed, outcome, failed, closed>>

\* ---- strings ----
Alphabet == {"a", "A", "b", " "}

RECURSIVE StringsUpTo(_)
StringsUpTo(n) ==
  IF n = 0 THEN {<<>>}
  ELSE LET S == StringsUpTo(n - 1)
       IN  S \cup {Append(s, ch) : s \in {t \in S : Len(t) = n - 1}, ch \in Alphabet}

Inputs == StringsUpTo(MaxLen)

LowerChar(ch) == IF ch = "A" THEN "a" ELSE IF ch = "B" THEN "b" ELSE ch

toLowerCaseNone(str) == str

toLowerCase(str) == [i \in 1..Len(str) |-> LowerChar(str[i])]

RECURSIVE trimStart(_)
trimStart(str) ==
  IF str # <<>> /\ Head(str) = " " THEN trimStart(Tail(str)) ELSE str

RECURSIVE trimEnd(_)
trimEnd(str) ==
  IF str # <<>> /\ str[Len(str)] = " "
  THEN trimEnd(SubSeq(str, 1, Len(str) - 1))
  ELSE str

trim(str) == trimEnd(trimStart(str))

\* ---- quizzes ----
StoredAnswers == {<<"A">>, <<"a", "b">>}

NoQuiz == [id |-> 0, answer |-> <<>>]

\* tables whose rows have ids 1..n in order
StoreChoices ==
  UNION {[1..n -> StoredAnswers] : n \in 0..MaxQuizzes}

RowsOf(ans) == [i \in 1..Len(ans) |-> [id |-> i, answer |-> ans[i]]]

\* ---- output events ----
Ev(e, n, label, ans) == [ev |-> e, n |-> n, label |-> label, ans |-> ans]

Count(seq, e) == Cardinality({i \in 1..Len(seq) : seq[i].ev = e})

\* the rows of an array
Elems(seq) == {seq[i] : i \in 1..Len(seq)}

Ids(seq) == {seq[i].id : i \in 1..Len(seq)}

spliceKeeps(seq, p) == seq

\* Array.prototype.splice(pos, 1) with a 0-based pos
splice(seq, p) ==
  IF p >= Len(seq) THEN seq
  ELSE [i \in 1..(Len(seq) - 1) |-> IF i <= p THEN seq[i] ELSE seq[i + 1]]

\* toBePlayed[pos]: undefined (NoQuiz) outside 0..length-1
at(seq, p) == IF p + 1 \in 1..Len(seq) THEN seq[p + 1] ELSE NoQuiz

randomIndexCeil(len) == 1..len

\* Math.floor(Math.random() * len), Math.random() in [0, 1)
randomIndex(len) == 0..(len - 1)

\* the comparison of line 277
isCorrect(answer, q) ==
  toLowerCase(trim(answer)) = toLowerCase(trim(q.answer))

incrementTwice(n) == n + 2

\* score++
increment(n) == n + 1

aciertosPlural(n) == "aciertos"

\* line 279
aciertos(n) == IF n >= 2 THEN "aciertos" ELSE "acierto"

Init ==
  /\ \E ans \in StoreChoices : store = RowsOf(ans)
  /\ nextId = Len(store) + 1
  /\ writes = 0
  /\ active = {1}
  /\ pc = [s \in Sessions |-> "idle"]
  /\ score = [s \in Sessions |-> 0]
  /\ toBePlayed = [s \in Sessions |-> <<>>]
  /\ quiz = [s \in Sessions |-> NoQuiz]
  /\ pos = [s \in Sessions |-> -1]
  /\ out = [s \in Sessions |-> <<>>]
  /\ sinkDown = [s \in Sessions |-> FALSE]
  /\ fetched = [s \in Sessions |-> FALSE]
  /\ snapshot = [s \in Sessions |-> <<>>]
  /\ asked = [s \in Sessions |-> <<>>]
  /\ answers = [s \in Sessions |-> <<>>]
  /\ typed = [s \in Sessions |-> <<>>]
  /\ outcome = [s \in Sessions |-> "none"]
  /\ failed = [s \in Sessions |-> FALSE]
  /\ closed = [s \in Sessions |-> FALSE]

playCmdStartsAtOne(s) ==
  /\ s \in active
  /\ pc[s] = "idle"
  /\ ~closed[s]
  /\ score' = [score EXCEPT ![s] = 1]
  /\ toBePlayed' = [toBePlayed EXCEPT ![s] = <<>>]
  /\ pc' = [pc EXCEPT ![s] = "findAll"]
  /\ UNCHANGED <<store, nextId, writes, typed, active, pos, quiz, out, sinkDown, fetched, snapshot, asked,
                 answers, outcome, failed, closed>>

\* exports.playCmd up to the call of findAll
playCmd(s) ==
  /\ s \in active
  /\ pc[s] = "idle"
  /\ ~closed[s]
  /\ score' = [score EXCEPT ![s] = 0]
  /\ toBePlayed' = [toBePlayed EXCEPT ![s] = <<>>]
  /\ pc' = [pc EXCEPT ![s] = "findAll"]
  /\ UNCHANGED <<store, nextId, writes, typed, active, pos, quiz, out, sinkDown, fetched, snapshot, asked,
                 answers, outcome, failed, closed>>

\* .then(quizzes => { toBePlayed = quizzes; })
findAllThen(s) ==
  /\ pc[s] = "findAll"
  /\ toBePlayed' = [toBePlayed EXCEPT ![s] = store]
  /\ snapshot' = [snapshot EXCEPT ![s] = store]
  /\ fetched' = [fetched EXCEPT ![s] = TRUE]
  /\ pc' = [pc EXCEPT ![s] = "fetched"]
  /\ UNCHANGED <<store, nextId, writes, typed, active, pos, score, quiz, out, sinkDown, asked, answers,
                 outcome, failed, closed>>

\* models.quiz.findAll rejects
findAllReject(s) ==
  /\ pc[s] = "findAll"
  /\ pc' = [pc EXCEPT ![s] = "rejected"]
  /\ failed' = [failed EXCEPT ![s] = TRUE]
  /\ UNCHANGED <<store, nextId, writes, typed, active, pos, score, toBePlayed, quiz, out, sinkDown,
                 fetched, snapshot, asked, answers, outcome, closed>>

nothingLeftSilent(s, o) ==
  /\ UNCHANGED <<store, toBePlayed, quiz, asked, pos, failed, sinkDown>>
  /\ out' = [out EXCEPT ![s] = o]
  /\ pc' = [pc EXCEPT ![s] = "resolved"]
  /\ outcome' = [outcome EXCEPT ![s] = "EXHAUSTED"]

\* playOne, lines 266-270: the pool is empty
nothingLeft(s, o) ==
  /\ UNCHANGED <<store, toBePlayed, quiz, asked, pos>>
  /\ \/ /\ ~sinkDown[s]
        /\ out' = [out EXCEPT ![s] = Append(o, Ev("nada", 0, "", <<>>))]
        /\ pc' = [pc EXCEPT ![s] = "resolved"]
        /\ outcome' = [outcome EXCEPT ![s] = "EXHAUSTED"]
        /\ UNCHANGED <<failed, sinkDown>>
     \/ \* log raises: the executor throws, the promise is rejected
        /\ sinkDown' = [sinkDown EXCEPT ![s] = TRUE]
        /\ out' = [out EXCEPT ![s] = o]
        /\ pc' = [pc EXCEPT ![s] = "rejected"]
        /\ failed' = [failed EXCEPT ![s] = TRUE]
        /\ UNCHANGED outcome

askOneTwice(s, o) ==
  \E p \in randomIndex(Len(toBePlayed[s])) :
    LET q == at(toBePlayed[s], p) IN
    /\ pos' = [pos EXCEPT ![s] = p]
    /\ quiz' = [quiz EXCEPT ![s] = q]
    /\ toBePlayed' = [toBePlayed EXCEPT ![s] = splice(toBePlayed[s], p)]
    /\ asked' = [asked EXCEPT ![s] = Append(asked[s], q.id)]
    /\ UNCHANGED <<store, outcome, sinkDown, failed>>
    /\ out' = [out EXCEPT ![s] = o \o <<Ev("question", q.id, "", <<>>),
                                        Ev("question", q.id, "", <<>>)>>]
    /\ pc' = [pc EXCEPT ![s] = "question"]

askOneSplicesStore(s, o) ==
  \E p \in randomIndex(Len(toBePlayed[s])) :
    LET q == at(toBePlayed[s], p) IN
    /\ pos' = [pos EXCEPT ![s] = p]
    /\ quiz' = [quiz EXCEPT ![s] = q]
    /\ toBePlayed' = [toBePlayed EXCEPT ![s] = splice(toBePlayed[s], p)]
    /\ asked' = [asked EXCEPT ![s] = Append(asked[s], q.id)]
    /\ store' = SelectSeq(store, LAMBDA r : r.id # q.id)
    /\ UNCHANGED <<outcome, sinkDown>>
    /\ IF q = NoQuiz
       THEN \* quiz is undefined: quiz.question throws inside the executor
            /\ out' = [out EXCEPT ![s] = o]
            /\ pc' = [pc EXCEPT ![s] = "rejected"]
            /\ failed' = [failed EXCEPT ![s] = TRUE]
       ELSE
         \/ \* rl.question registers the callback
            /\ out' = [out EXCEPT ![s] = Append(o, Ev("question", q.id, "", <<>>))]
            /\ pc' = [pc EXCEPT ![s] = "question"]
            /\ UNCHANGED failed
         \/ \* rl.question raises: makeQuestion's promise is rejected, nobody
            \* handles it and playOne's promise is never settled
            /\ out' = [out EXCEPT ![s] = o]
            /\ pc' = [pc EXCEPT ![s] = "unhandled"]
            /\ failed' = [failed EXCEPT ![s] = TRUE]

\* playOne, lines 271-275: draw a row, take it out of the pool, ask it
askOne(s, o) ==
  \E p \in randomIndex(Len(toBePlayed[s])) :
    LET q == at(toBePlayed[s], p) IN
    /\ pos' = [pos EXCEPT ![s] = p]
    /\ quiz' = [quiz EXCEPT ![s] = q]
    /\ toBePlayed' = [toBePlayed EXCEPT ![s] = splice(toBePlayed[s], p)]
    /\ asked' = [asked EXCEPT ![s] = Append(asked[s], q.id)]
    /\ UNCHANGED <<store, outcome, sinkDown>>
    /\ IF q = NoQuiz
       THEN \* quiz is undefined: quiz.question throws inside the executor
            /\ out' = [out EXCEPT ![s] = o]
            /\ pc' = [pc EXCEPT ![s] = "rejected"]
            /\ failed' = [failed EXCEPT ![s] = TRUE]
       ELSE
         \/ \* rl.question registers the callback
            /\ out' = [out EXCEPT ![s] = Append(o, Ev("question", q.id, "", <<>>))]
            /\ pc' = [pc EXCEPT ![s] = "question"]
            /\ UNCHANGED failed
         \/ \* rl.question raises: makeQuestion's promise is rejected, nobody
            \* handles it and playOne's promise is never settled
            /\ out' = [out EXCEPT ![s] = o]
            /\ pc' = [pc EXCEPT ![s] = "unhandled"]
            /\ failed' = [failed EXCEPT ![s] = TRUE]

\* the executor of playOne's promise; o is the session's output so far
playOne(s, o) ==
  IF Len(toBePlayed[s]) <= 0 THEN nothingLeft(s, o) ELSE askOne(s, o)

\* .then(() => { return playOne(); })
playFirst(s) ==
  /\ pc[s] = "fetched"
  /\ playOne(s, out[s])
  /\ UNCHANGED <<active, nextId, writes, typed, score, fetched, snapshot, answers, closed>>

correctoShared(s) ==
  /\ score' = [t \in Sessions |-> increment(score[t])]
  /\ ~sinkDown[s]
  /\ playOne(s, Append(out[s],
                Ev("correcto", score'[s], aciertos(score'[s]), <<>>)))

correctoSilent(s) ==
  /\ score' = [score EXCEPT ![s] = increment(score[s])]
  /\ ~sinkDown[s]
  /\ playOne(s, out[s])

\* answer callback, branch of line 278-281
correcto(s) ==
  /\ score' = [score EXCEPT ![s] = increment(score[s])]
  /\ \/ /\ ~sinkDown[s]
        /\ playOne(s, Append(out[s],
                      Ev("correcto", score'[s], aciertos(score'[s]), <<>>)))
     \/ \* log raises inside the callback: unhandled, playOne never settles
        /\ sinkDown' = [sinkDown EXCEPT ![s] = TRUE]
        /\ pc' = [pc EXCEPT ![s] = "unhandled"]
        /\ failed' = [failed EXCEPT ![s] = TRUE]
        /\ UNCHANGED <<store, toBePlayed, quiz, asked, pos, out, outcome>>

incorrectoContinues(s) ==
  /\ UNCHANGED score
  /\ ~sinkDown[s]
  /\ playOne(s, Append(out[s], Ev("incorrecto", quiz[s].id, "", quiz[s].answer)))

incorrectoNoResolve(s) ==
  /\ UNCHANGED <<store, score, toBePlayed, quiz, asked, pos, failed, sinkDown, outcome>>
  /\ out' = [out EXCEPT ![s] =
               Append(out[s], Ev("incorrecto", quiz[s].id, "", quiz[s].answer))]
  /\ pc' = [pc EXCEPT ![s] = "pending"]

incorrectoCounts(s) ==
  /\ UNCHANGED <<store, toBePlayed, quiz, asked, pos, failed, sinkDown>>
  /\ score' = [score EXCEPT ![s] = score[s] + 1]
  /\ out' = [out EXCEPT ![s] =
               Append(out[s], Ev("incorrecto", quiz[s].id, "", quiz[s].answer))]
  /\ pc' = [pc EXCEPT ![s] = "resolved"]
  /\ outcome' = [outcome EXCEPT ![s] = "FAILED"]

\* answer callback, branch of line 283-284
incorrecto(s) ==
  /\ UNCHANGED <<store, score, toBePlayed, quiz, asked, pos>>
  /\ \/ /\ ~sinkDown[s]
        /\ out' = [out EXCEPT ![s] =
                     Append(out[s], Ev("incorrecto", quiz[s].id, "", quiz[s].answer))]
        /\ pc' = [pc EXCEPT ![s] = "resolved"]
        /\ outcome' = [outcome EXCEPT ![s] = "FAILED"]
        /\ UNCHANGED <<failed, sinkDown>>
     \/ /\ sinkDown' = [sinkDown EXCEPT ![s] = TRUE]
        /\ pc' = [pc EXCEPT ![s] = "unhandled"]
        /\ failed' = [failed EXCEPT ![s] = TRUE]
        /\ UNCHANGED <<out, outcome>>

\* makeQuestion: the promise is fulfilled with answer.trim()
makeQuestion(line) == trim(line)

\* readline delivers the line typed: callback of rl.question, then the
\* .then callback of playOne (lines 276-286)
deliver(s, line) ==
  /\ pc[s] = "question"
  /\ ~closed[s]
  /\ LET a == makeQuestion(line)
         ok == isCorrect(a, quiz[s]) IN
     /\ answers' = [answers EXCEPT ![s] = Append(answers[s], ok)]
     /\ IF ok THEN correcto(s) ELSE incorrecto(s)
  /\ UNCHANGED <<active, nextId, writes, fetched, snapshot, closed>>

answer(s) ==
  /\ \E line \in Inputs : deliver(s, line)
  /\ UNCHANGED typed

\* the same step, keeping the line as typed
answerTyped(s) ==
  \E line \in Inputs :
    /\ deliver(s, line)
    /\ typed' = [typed EXCEPT ![s] = line]

\* .catch(error => { errorlog(socket, error.message); })
catch(s) ==
  /\ pc[s] = "rejected"
  /\ \/ /\ ~sinkDown[s]
        /\ out' = [out EXCEPT ![s] = Append(out[s], Ev("error", 0, "", <<>>))]
        /\ pc' = [pc EXCEPT ![s] = "caught"]
        /\ UNCHANGED sinkDown
     \/ \* errorlog raises: the chain ends rejected, fin is skipped
        /\ sinkDown' = [sinkDown EXCEPT ![s] = TRUE]
        /\ pc' = [pc EXCEPT ![s] = "unhandled"]
        /\ UNCHANGED out
  /\ UNCHANGED <<store, nextId, writes, typed, active, pos, score, toBePlayed, quiz, fetched, snapshot,
                 asked, answers, outcome, failed, closed>>

\* .then(() => { fin(); rl.prompt(); }); raise is the first of the three
\* calls log, biglog, rl.prompt that throws (0: none)
fin(s) ==
  /\ pc[s] \in {"resolved", "caught"}
  /\ \E raise \in 0..3 :
       LET e1 == Ev("fin", 0, "", <<>>)
           e2 == Ev("biglog", score[s], "", <<>>)
           e3 == Ev("prompt", 0, "", <<>>) IN
       /\ raise # 1 => ~sinkDown[s]
       /\ sinkDown' = [sinkDown EXCEPT ![s] = sinkDown[s] \/ raise \in {1, 2}]
       /\ out' = [out EXCEPT ![s] =
                    out[s] \o (CASE raise = 0 -> <<e1, e2, e3>>
                                 [] raise = 1 -> <<>>
                                 [] raise = 2 -> <<e1>>
                                 [] raise = 3 -> <<e1, e2>>)]
       /\ pc' = [pc EXCEPT ![s] = IF raise = 0 THEN "DONE" ELSE "unhandled"]
       /\ failed' = [failed EXCEPT ![s] = failed[s] \/ raise # 0]
  /\ UNCHANGED <<store, nextId, writes, typed, active, pos, score, toBePlayed, quiz, fetched, snapshot,
                 asked, answers, outcome, closed>>

\* rl.close(): exports.quitCmd, or the client ends its input stream
quitCmd(s) ==
  /\ s \in active
  /\ ~closed[s]
  /\ closed' = [closed EXCEPT ![s] = TRUE]
  /\ UNCHANGED <<store, nextId, writes, typed, active, pos, pc, score, toBePlayed, quiz, out, sinkDown,
                 fetched, snapshot, asked, answers, outcome, failed>>

deleteCmdLive(id) ==
  /\ writes < MaxWrites
  /\ id \in Ids(store)
  /\ store' = SelectSeq(store, LAMBDA r : r.id # id)
  /\ toBePlayed' = [s \in Sessions |->
                      SelectSeq(toBePlayed[s], LAMBDA r : r.id # id)]
  /\ writes' = writes + 1
  /\ UNCHANGED <<typed, nextId, active, pc, score, quiz, pos, out, sinkDown,
                 fetched, snapshot, asked, answers, outcome, failed, closed>>

\* exports.deleteCmd: models.quiz.destroy({where: {id}})
deleteCmd(id) ==
  /\ writes < MaxWrites
  /\ id \in Ids(store)
  /\ store' = SelectSeq(store, LAMBDA r : r.id # id)
  /\ writes' = writes + 1
  /\ UNCHANGED <<typed, nextId, active, pc, score, toBePlayed, quiz, pos, out, sinkDown,
                 fetched, snapshot, asked, answers, outcome, failed, closed>>

\* exports.editCmd: quiz.answer = a; quiz.save()
editCmd(id, a) ==
  /\ writes < MaxWrites
  /\ id \in Ids(store)
  /\ store' = [i \in 1..Len(store) |->
                 IF store[i].id = id THEN [id |-> id, answer |-> a] ELSE store[i]]
  /\ store' # store
  /\ writes' = writes + 1
  /\ UNCHANGED <<typed, nextId, active, pc, score, toBePlayed, quiz, pos, out, sinkDown,
                 fetched, snapshot, asked, answers, outcome, failed, closed>>

\* exports.addCmd: models.quiz.create({question: q, answer: a})
addCmd(a) ==
  /\ writes < MaxWrites
  /\ store' = Append(store, [id |-> nextId, answer |-> a])
  /\ nextId' = nextId + 1
  /\ writes' = writes + 1
  /\ UNCHANGED <<typed, active, pc, score, toBePlayed, quiz, pos, out, sinkDown,
                 fetched, snapshot, asked, answers, outcome, failed, closed>>

Next ==
  \E s \in Sessions :
    \/ playCmd(s)
    \/ findAllThen(s)
    \/ findAllReject(s)
    \/ playFirst(s)
    \/ answer(s)
    \/ catch(s)
    \/ fin(s)
    \/ quitCmd(s)

Spec == Init /\ [][Next]_vars

\* The event loop runs every callback that is ready; a line typed by the
\* user is delivered while the readline is open.  Nothing obliges the user
\* to start a session or to quit.
Fairness ==
  \A s \in Sessions :
    /\ WF_vars(findAllThen(s))
    /\ WF_vars(playFirst(s))
    /\ WF_vars(answer(s))
    /\ WF_vars(catch(s))
    /\ WF_vars(fin(s))

FairSpec == Spec /\ Fairness

\* no session has started yet
InitSessions ==
  /\ nextId = Len(store) + 1
  /\ writes = 0
  /\ pc = [s \in Sessions |-> "idle"]
  /\ score = [s \in Sessions |-> 0]
  /\ toBePlayed = [s \in Sessions |-> <<>>]
  /\ quiz = [s \in Sessions |-> NoQuiz]
  /\ pos = [s \in Sessions |-> -1]
  /\ out = [s \in Sessions |-> <<>>]
  /\ sinkDown = [s \in Sessions |-> FALSE]
  /\ fetched = [s \in Sessions |-> FALSE]
  /\ snapshot = [s \in Sessions |-> <<>>]
  /\ asked = [s \in Sessions |-> <<>>]
  /\ answers = [s \in Sessions |-> <<>>]
  /\ typed = [s \in Sessions |-> <<>>]
  /\ outcome = [s \in Sessions |-> "none"]
  /\ failed = [s \in Sessions |-> FALSE]
  /\ closed = [s \in Sessions |-> FALSE]

\* two clients connected, each with its own socket and readline
InitTwo ==
  /\ \E ans \in StoreChoices : Len(ans) <= MaxQuizzesTwo /\ store = RowsOf(ans)
  /\ active = {1, 2}
  /\ InitSessions

\* one client playing while other clients write to the table
InitStore ==
  /\ \E ans \in StoreChoices : Len(ans) <= MaxQuizzesStore /\ store = RowsOf(ans)
  /\ active = {1}
  /\ InitSessions

\* one client playing or testing
InitJudge ==
  /\ \E ans \in StoreChoices : Len(ans) <= MaxQuizzesJudge /\ store = RowsOf(ans)
  /\ active = {1}
  /\ InitSessions

\* exports.testCmd up to the prompt: findById, then makeQuestion
testCmd(s, id) ==
  /\ s \in active
  /\ pc[s] = "idle"
  /\ ~closed[s]
  /\ IF id \in Ids(store)
     THEN /\ quiz' = [quiz EXCEPT ![s] =
                        CHOOSE r \in Elems(store) : r.id = id]
          /\ out' = [out EXCEPT ![s] = Append(out[s], Ev("question", id, "", <<>>))]
          /\ pc' = [pc EXCEPT ![s] = "testQuestion"]
          /\ UNCHANGED <<sinkDown, failed>>
     ELSE \* no such quiz: throw, .catch runs errorlog, then rl.prompt
          /\ UNCHANGED quiz
          /\ \/ /\ out' = [out EXCEPT ![s] =
                             out[s] \o <<Ev("error", 0, "", <<>>), Ev("prompt", 0, "", <<>>)>>]
                /\ pc' = [pc EXCEPT ![s] = "tested"]
                /\ UNCHANGED <<sinkDown, failed>>
             \/ /\ sinkDown' = [sinkDown EXCEPT ![s] = TRUE]
                /\ failed' = [failed EXCEPT ![s] = TRUE]
                /\ pc' = [pc EXCEPT ![s] = "unhandled"]
                /\ UNCHANGED out
  /\ UNCHANGED <<store, nextId, writes, typed, active, score, toBePlayed, pos,
                 fetched, snapshot, asked, answers, outcome, closed>>

\* testCmd, lines 235-250: the answer callback, then rl.prompt
testAnswer(s) ==
  /\ pc[s] = "testQuestion"
  /\ ~closed[s]
  /\ \E line \in Inputs :
       LET a == makeQuestion(line)
           verdict == IF isCorrect(a, quiz[s]) THEN "Correcto" ELSE "Incorrecto" IN
       /\ typed' = [typed EXCEPT ![s] = line]
       /\ \/ /\ ~sinkDown[s]
             /\ out' = [out EXCEPT ![s] =
                          out[s] \o <<Ev("testlog", 0, verdict, <<>>),
                                      Ev("testbiglog", 0, verdict, <<>>),
                                      Ev("prompt", 0, "", <<>>)>>]
             /\ pc' = [pc EXCEPT ![s] = "tested"]
             /\ UNCHANGED <<sinkDown, failed>>
          \/ \* log raises, and so does errorlog in .catch
             /\ sinkDown' = [sinkDown EXCEPT ![s] = TRUE]
             /\ failed' = [failed EXCEPT ![s] = TRUE]
             /\ pc' = [pc EXCEPT ![s] = "unhandled"]
             /\ UNCHANGED out
  /\ UNCHANGED <<store, nextId, writes, active, score, toBePlayed, quiz, pos,
                 fetched, snapshot, asked, answers, outcome, closed>>

\* play and test sessions, with the line typed kept for each verdict
NextJudge ==
  \E s \in Sessions :
    \/ playCmd(s)
    \/ findAllThen(s)
    \/ findAllReject(s)
    \/ playFirst(s)
    \/ answerTyped(s)
    \/ catch(s)
    \/ fin(s)
    \/ quitCmd(s)
    \/ \E id \in 1..(MaxQuizzesJudge + 1) : testCmd(s, id)
    \/ testAnswer(s)

SpecJudge == InitJudge /\ [][NextJudge]_vars

SpecTwo == InitTwo /\ [][Next]_vars

\* the sessions together with the commands of other clients that write to
\* the table
NextStore ==
  \/ Next
  \/ \E id \in 1..(MaxQuizzesStore + MaxWrites) : deleteCmd(id)
  \/ \E id \in 1..(MaxQuizzesStore + MaxWrites), a \in StoredAnswers : editCmd(id, a)
  \/ \E a \in StoredAnswers : addCmd(a)

SpecStore == InitStore /\ [][NextStore]_vars

\* ---- properties ----

NoDuplicates(seq) ==
  \A i, j \in 1..Len(seq) : seq[i] = seq[j] => i = j

\* C1: within a session no quiz of the snapshot is drawn twice: the ids
\* drawn so far are pairwise different and none of them is still in
\* toBePlayed.
C1_NeverAskedTwice ==
  \A s \in Sessions :
    /\ NoDuplicates(asked[s])
    /\ Elems(asked[s]) \cap Ids(toBePlayed[s]) = {}
    /\ Elems(asked[s]) \subseteq Ids(snapshot[s])

C1_Witness ==
  \E s \in Sessions :
    /\ Len(asked[s]) >= 2
    /\ toBePlayed[s] # <<>>
    /\ pc[s] = "question"

\* C2: score <= number of quizzes asked so far <= size of the snapshot, in
\* every state; the tally printed by fin never exceeds the snapshot size.
C2_ScoreBounded ==
  \A s \in Sessions :
    /\ score[s] <= Len(asked[s])
    /\ Len(asked[s]) <= Len(snapshot[s])
    /\ \A i \in 1..Len(out[s]) :
         out[s][i].ev = "biglog" => out[s][i].n <= Len(snapshot[s])

C2_Witness ==
  \E s \in Sessions :
    /\ pc[s] = "DONE"
    /\ score[s] = 2
    /\ Len(asked[s]) = 3

\* C3: every question asked takes exactly one quiz out of the pool, whatever
\* the verdict, and nothing is put back: pool size + questions asked is the
\* snapshot size, the pool stays inside the snapshot, and a step that changes
\* the pool after the fetch removes one row and asks one question.
C3_PoolShrinksByOne ==
  /\ [](\A s \in Sessions :
         /\ Len(toBePlayed[s]) + Len(asked[s]) = Len(snapshot[s])
         /\ Elems(toBePlayed[s]) \subseteq Elems(snapshot[s]))
  /\ [][\A s \in Sessions :
          /\ Len(asked'[s]) \in {Len(asked[s]), Len(asked[s]) + 1}
          /\ pc[s] # "findAll" =>
               /\ Len(toBePlayed'[s]) = Len(toBePlayed[s]) - (Len(asked'[s]) - Len(asked[s]))
               /\ Elems(toBePlayed'[s]) \subseteq Elems(toBePlayed[s])]_vars

C3_Witness ==
  \E s \in Sessions :
    /\ Len(answers[s]) = 2
    /\ answers[s][1] = TRUE
    /\ answers[s][2] = FALSE
    /\ Len(toBePlayed[s]) = 1
    /\ Len(snapshot[s]) = 3

First(seq, e) ==
  IF \E i \in 1..Len(seq) : seq[i].ev = e
  THEN CHOOSE i \in 1..Len(seq) :
         seq[i].ev = e /\ \A j \in 1..(i - 1) : seq[j].ev # e
  ELSE 0

Corrects(ans) == Cardinality({i \in 1..Len(ans) : ans[i]})

\* C4: once an incorrect answer has been given it is the last answer of the
\* session: no question is asked after it even if rows remain in the pool,
\* the "nothing left" message is never printed, and the session goes on to
\* fin as FAILED, never as EXHAUSTED, also when the pool is empty.
C4_IncorrectEndsFailed ==
  \A s \in Sessions :
    (\E i \in 1..Len(answers[s]) : ~answers[s][i]) =>
      /\ \A i \in 1..Len(answers[s]) : answers[s][i] <=> i < Len(answers[s])
      /\ pc[s] \in {"resolved", "DONE", "unhandled"}
      /\ Count(out[s], "question") = Len(answers[s])
      /\ Count(out[s], "nada") = 0
      /\ outcome[s] # "EXHAUSTED"
      /\ pc[s] \in {"resolved", "DONE"} => outcome[s] = "FAILED"

C4_Witness ==
  \E s \in Sessions :
    /\ pc[s] = "DONE"
    /\ outcome[s] = "FAILED"
    /\ toBePlayed[s] = <<>>
    /\ Len(snapshot[s]) >= 2

\* C5: every session prints at most one tally and exactly one by the time it
\* is DONE; the tally is printed only after the session reached EXHAUSTED or
\* FAILED, with no question outstanding and after the feedback of the last
\* answer; the number printed is the score, which then stays as it is.
C5_TallyOnceAtEnd ==
  \A s \in Sessions :
    /\ Count(out[s], "fin") <= 1
    /\ Count(out[s], "biglog") <= 1
    /\ pc[s] = "DONE" =>
         Count(out[s], "fin") = 1 /\ Count(out[s], "biglog") = 1
    /\ \A i \in 1..Len(out[s]) :
         out[s][i].ev = "biglog" => out[s][i].n = score[s]
    /\ Count(out[s], "fin") > 0 =>
         /\ outcome[s] \in {"EXHAUSTED", "FAILED"}
         /\ pc[s] \in {"DONE", "unhandled"}
         /\ Count(out[s], "question") = Len(answers[s])
         /\ First(out[s], "fin") > 1
         /\ out[s][First(out[s], "fin") - 1].ev \in {"nada", "incorrecto"}

\* C6: once a collaborator of the session has failed (findAll rejected, the
\* prompt service or the output sink raised), no tally is printed.
C6_NoTallyAfterFailure ==
  [][\A s \in Sessions :
       failed[s] => Count(out'[s], "fin") = Count(out[s], "fin")]_vars

\* C7: closing the readline of a session while its question is outstanding
\* releases the pending prompt: the session leaves the suspended state with
\* the close (it becomes ABORTED), and prints nothing, no tally included.
C7_CloseReleasesPrompt ==
  [][\A s \in Sessions :
       (pc[s] = "question" /\ ~closed[s] /\ closed'[s]) =>
         /\ pc'[s] # "question"
         /\ out'[s] = out[s]]_vars

\* C8: a session that fetched an empty collection never asks a question and
\* keeps score 0; it prints "nothing left" once and ends with tally 0.
C8_EmptyCollection ==
  \A s \in Sessions :
    (fetched[s] /\ snapshot[s] = <<>>) =>
      /\ Count(out[s], "question") = 0
      /\ asked[s] = <<>>
      /\ score[s] = 0
      /\ Count(out[s], "nada") <= 1
      /\ pc[s] = "resolved" => out[s] = <<Ev("nada", 0, "", <<>>)>>
      /\ pc[s] = "DONE" =>
           out[s] = <<Ev("nada", 0, "", <<>>), Ev("fin", 0, "", <<>>),
                      Ev("biglog", 0, "", <<>>), Ev("prompt", 0, "", <<>>)>>

C8_Witness ==
  \E s \in Sessions :
    /\ fetched[s]
    /\ snapshot[s] = <<>>
    /\ pc[s] = "DONE"

\* C9: "nothing left" is printed at most once, and it has been printed
\* exactly when the session ended EXHAUSTED; a finished session over N
\* fetched quizzes whose answers were all correct asked N questions, ended
\* EXHAUSTED with score N, and printed "nothing left" once, right after the
\* N-th "correct" line and right before the tally.
C9_AllCorrect ==
  \A s \in Sessions :
    /\ Count(out[s], "nada") <= 1
    /\ Count(out[s], "nada") = 1 <=> outcome[s] = "EXHAUSTED"
    /\ (fetched[s] /\ pc[s] = "DONE" /\ \A i \in 1..Len(answers[s]) : answers[s][i]) =>
         LET N == Len(snapshot[s])
             k == First(out[s], "nada") IN
         /\ Count(out[s], "question") = N
         /\ Len(answers[s]) = N
         /\ outcome[s] = "EXHAUSTED"
         /\ score[s] = N
         /\ k > 0
         /\ N > 0 => out[s][k - 1] = Ev("correcto", N, aciertos(N), <<>>)
         /\ out[s][k + 1].ev = "fin"
         /\ out[s][k + 2] = Ev("biglog", N, "", <<>>)

C9_Witness ==
  \E s \in Sessions :
    /\ pc[s] = "DONE"
    /\ Len(snapshot[s]) = 3
    /\ score[s] = 3
    /\ outcome[s] = "EXHAUSTED"

\* C10: the score is the number of correct answers given: the number of
\* questions asked minus one when the session ended FAILED, the number of
\* questions asked when it ended EXHAUSTED; a finished session whose k-th
\* answer was the first incorrect one asked k questions, ended FAILED and
\* printed the tally k-1.
C10_ScoreIsCorrectAnswers ==
  \A s \in Sessions :
    /\ score[s] = Corrects(answers[s])
    /\ outcome[s] = "FAILED" =>
         /\ score[s] = Count(out[s], "question") - 1
         /\ Len(answers[s]) = Count(out[s], "question")
         /\ ~answers[s][Len(answers[s])]
    /\ outcome[s] = "EXHAUSTED" => score[s] = Count(out[s], "question")
    /\ (pc[s] = "DONE" /\ \E i \in 1..Len(answers[s]) : ~answers[s][i]) =>
         LET k == CHOOSE i \in 1..Len(answers[s]) : ~answers[s][i] IN
         /\ \A i \in 1..(k - 1) : answers[s][i]
         /\ Count(out[s], "question") = k
         /\ outcome[s] = "FAILED"
         /\ \E i \in 1..Len(out[s]) : out[s][i] = Ev("biglog", k - 1, "", <<>>)

C10_Witness ==
  \E s \in Sessions :
    /\ pc[s] = "DONE"
    /\ answers[s] = <<TRUE, TRUE, FALSE>>
    /\ \E i \in 1..Len(out[s]) : out[s][i] = Ev("biglog", 2, "", <<>>)

Feedback == {"correcto", "incorrecto"}

\* the events of kind e among the first i events
CountUpTo(seq, i, e) == Cardinality({j \in 1..i : seq[j].ev = e})

\* C11: a session has at most one question outstanding: the questions asked
\* exceed the answers delivered by one exactly while it waits for an answer,
\* a further question is only asked after the "correct" feedback of the
\* previous one, and each answer is judged against the quiz asked last.
C11_OnePromptAtATime ==
  \A s \in Sessions :
    LET q == Count(out[s], "question")
        a == Len(answers[s]) IN
    /\ q - a \in {0, 1}
    /\ pc[s] = "question" <=> q = a + 1
    /\ \A i, j \in 1..Len(out[s]) :
         (i < j /\ out[s][i].ev = "question" /\ out[s][j].ev = "question") =>
           \E k \in (i + 1)..(j - 1) : out[s][k].ev = "correcto"
    /\ q > 0 =>
         /\ quiz[s].id = asked[s][Len(asked[s])]
         /\ \A i \in 1..Len(out[s]) :
              out[s][i].ev = "question" =>
                out[s][i].n = asked[s][CountUpTo(out[s], i, "question")]
    /\ \A i \in 1..Len(out[s]) :
         out[s][i].ev = "incorrecto" =>
           /\ i > 1
           /\ out[s][i - 1] = Ev("question", out[s][i].n, "", <<>>)

C11_Witness ==
  \E s \in Sessions :
    /\ pc[s] = "question"
    /\ Len(answers[s]) = 2
    /\ Count(out[s], "question") = 3

\* C14: the score is 0 until the first answer; a step that delivers a
\* correct answer adds exactly 1, a step that delivers an incorrect answer
\* and every other step leave it as it is; no step decreases it.
C14_ScoreMonotone ==
  /\ [](\A s \in Sessions : answers[s] = <<>> => score[s] = 0)
  /\ [][\A s \in Sessions :
          /\ score'[s] >= score[s]
          /\ IF Len(answers'[s]) = Len(answers[s]) + 1
             THEN score'[s] = score[s] +
                    (IF answers'[s][Len(answers'[s])] THEN 1 ELSE 0)
             ELSE score'[s] = score[s]]_vars

C14_Witness ==
  \E s \in Sessions :
    /\ score[s] = 2
    /\ pc[s] = "resolved"
    /\ outcome[s] = "FAILED"

\* C16: every index playOne draws is within 0..size-1 of the pool as it is
\* at the draw, so the quiz selected is a defined row of the remaining
\* pool; and every row still in the pool can be the one drawn next.
C16_DrawInRange ==
  /\ [][\A s \in Sessions :
          Len(asked'[s]) > Len(asked[s]) =>
            /\ pos'[s] \in 0..(Len(toBePlayed[s]) - 1)
            /\ quiz'[s] = toBePlayed[s][pos'[s] + 1]
            /\ quiz'[s] # NoQuiz
            /\ toBePlayed'[s] = splice(toBePlayed[s], pos'[s])]_vars
  /\ [](\A s \in Sessions :
         /\ pc[s] = "fetched" =>
              \A q \in Elems(toBePlayed[s]) :
                ENABLED (playFirst(s) /\ quiz'[s] = q /\ pc'[s] = "question")
         /\ (pc[s] = "question" /\ ~closed[s] /\ ~sinkDown[s]) =>
              \A q \in Elems(toBePlayed[s]) :
                ENABLED (answer(s) /\ quiz'[s] = q /\ pc'[s] = "question"))

C16_Witness ==
  \E s \in Sessions :
    /\ Len(asked[s]) = 2
    /\ pos[s] = 1
    /\ Len(toBePlayed[s]) = 1
    /\ pc[s] = "question"

\* C17: feedback is printed per answer: a feedback line is always directly
\* preceded by the question it answers; whatever follows a question (the
\* next question, "nothing left", the tally) is preceded by exactly one
\* feedback line for it, "correct" with the running score when the answer
\* matched and "incorrect" with the expected answer otherwise.
C17_FeedbackPerAnswer ==
  \A s \in Sessions :
    /\ \A i \in 1..Len(out[s]) :
         /\ (out[s][i].ev = "question" /\ i < Len(out[s])) =>
              /\ out[s][i + 1].ev \in Feedback
              /\ i + 1 < Len(out[s]) => out[s][i + 2].ev \notin Feedback
         /\ out[s][i].ev \in Feedback =>
              LET k == CountUpTo(out[s], i, "question") IN
              /\ i > 1
              /\ out[s][i - 1].ev = "question"
              /\ k <= Len(answers[s])
              /\ out[s][i].ev = "correcto" <=> answers[s][k]
              /\ out[s][i].ev = "correcto" =>
                   out[s][i].n = Corrects(SubSeq(answers[s], 1, k))
              /\ out[s][i].ev = "incorrecto" =>
                   \E r \in Elems(snapshot[s]) :
                     /\ r.id = out[s][i - 1].n
                     /\ out[s][i].ans = r.answer
    /\ pc[s] \in {"resolved", "DONE", "question"} =>
         Count(out[s], "correcto") + Count(out[s], "incorrecto") = Len(answers[s])

C17_Witness ==
  \E s \in Sessions :
    /\ Count(out[s], "correcto") = 2
    /\ Count(out[s], "incorrecto") = 1

\* C20: the "correct" line carries the label "acierto" exactly when the
\* score it reports is 1 and "aciertos" for every other score it reports.
C20_SingularIffOne ==
  \A s \in Sessions :
    \A i \in 1..Len(out[s]) :
      out[s][i].ev = "correcto" =>
        /\ out[s][i].label = "acierto" <=> out[s][i].n = 1
        /\ out[s][i].label = "aciertos" <=> out[s][i].n # 1

C20_Witness ==
  \E s \in Sessions :
    \E i, j \in 1..Len(out[s]) :
      /\ out[s][i] = Ev("correcto", 1, "acierto", <<>>)
      /\ out[s][j] = Ev("correcto", 3, "aciertos", <<>>)

RowsWithIds(rows, ids) == {r \in Elems(rows) : r.id \in ids}

\* C12: the pool is a snapshot taken at the start of the session: a step
\* that creates, edits or deletes a row of the table changes nothing of any
\* session, and what a session has asked and has still to ask are always
\* exactly the rows findAll delivered, with the answers they had then.
C12_SnapshotIsolated ==
  /\ [][store' # store =>
          UNCHANGED <<pc, score, toBePlayed, quiz, pos, out, snapshot, asked,
                      answers, outcome>>]_vars
  /\ [](\A s \in Sessions :
         fetched[s] =>
           /\ Elems(toBePlayed[s]) \cup RowsWithIds(snapshot[s], Elems(asked[s]))
                = Elems(snapshot[s])
           /\ asked[s] # <<>> => quiz[s] \in Elems(snapshot[s])
           /\ \A i \in 1..Len(out[s]) :
                out[s][i].ev = "incorrecto" =>
                  [id |-> out[s][i].n, answer |-> out[s][i].ans] \in Elems(snapshot[s])
           /\ outcome[s] = "EXHAUSTED" =>
                Count(out[s], "question") = Len(snapshot[s]))

C12_Witness ==
  \E s \in Sessions :
    /\ pc[s] = "DONE"
    /\ outcome[s] = "FAILED"
    /\ quiz[s] \notin Elems(store)
    /\ Len(answers[s]) = 2

\* C19: no step of a play session writes to the table: the table and its
\* id counter only change in a step of addCmd, editCmd or deleteCmd, and as
\* long as no such command ran the table is what the session fetched, also
\* when the session has emptied its own pool.
C19_StoreUntouched ==
  /\ [][writes' = writes => (store' = store /\ nextId' = nextId)]_vars
  /\ [](\A s \in Sessions : (fetched[s] /\ writes = 0) => store = snapshot[s])

C19_Witness ==
  \E s \in Sessions :
    /\ pc[s] = "DONE"
    /\ writes = 0
    /\ toBePlayed[s] = <<>>
    /\ Len(store) = 2
    /\ store = snapshot[s]

\* C18: score and pool belong to one session: with two sessions running
\* interleaved, a step of one session (an answer delivered to it included)
\* leaves the score, pool, current quiz and output of the other as they
\* are, and the tally of each session is the number of its own correct
\* answers.
C18_SessionsIndependent ==
  /\ [][\A s, u \in Sessions :
          (s # u /\ <<pc[s], answers[s], out[s]>> # <<pc'[s], answers'[s], out'[s]>>) =>
            UNCHANGED <<score[u], toBePlayed[u], quiz[u], out[u], pc[u],
                        answers[u], asked[u]>>]_vars
  /\ [](\A s \in Sessions :
         /\ score[s] = Corrects(answers[s])
         /\ \A i \in 1..Len(out[s]) :
              out[s][i].ev = "biglog" => out[s][i].n = Corrects(answers[s]))

C18_Witness ==
  /\ pc[1] = "DONE"
  /\ pc[2] = "DONE"
  /\ score[1] = 1
  /\ score[2] = 0
  /\ Len(answers[2]) = 1

\* a string without its leading and trailing blanks
Stripped(x) ==
  LET idx == {i \in 1..Len(x) : x[i] # " "} IN
  IF idx = {} THEN <<>>
  ELSE SubSeq(x, CHOOSE i \in idx : \A j \in idx : i <= j,
                 CHOOSE i \in idx : \A j \in idx : i >= j)

CasePairs == {{"a", "A"}, {"b", "B"}}

\* equal up to surrounding blanks and the case of letters
SameAnswer(x, y) ==
  LET u == Stripped(x)
      v == Stripped(y) IN
  /\ Len(u) = Len(v)
  /\ \A i \in 1..Len(u) : u[i] = v[i] \/ {u[i], v[i]} \in CasePairs

\* the row the last answer of a play session was judged against
Judged(s) ==
  CHOOSE r \in Elems(snapshot[s]) : r.id = asked[s][Len(answers[s])]

\* C13: an answer is judged correct exactly when the line typed and the
\* stored answer are equal up to surrounding blanks and the case of letters,
\* in play and in test; a line that differs from the stored answer only in
\* case or surrounding blanks is correct, one with another or an extra
\* letter is not; normalizing a normalized string changes nothing.
C13_JudgedByNormalForm ==
  /\ \A s \in Sessions :
       /\ answers[s] # <<>> =>
            (answers[s][Len(answers[s])] <=> SameAnswer(typed[s], Judged(s).answer))
       /\ \A i \in 1..Len(out[s]) :
            out[s][i].ev = "testlog" =>
              (out[s][i].label = "Correcto" <=> SameAnswer(typed[s], quiz[s].answer))
  /\ isCorrect(<<" ", "a">>, [id |-> 1, answer |-> <<"A">>])
  /\ isCorrect(<<"A", " ">>, [id |-> 1, answer |-> <<"A">>])
  /\ ~isCorrect(<<"a", "b">>, [id |-> 1, answer |-> <<"A">>])
  /\ ~isCorrect(<<"a">>, [id |-> 1, answer |-> <<"a", "b">>])
  /\ \A x \in Inputs \cup StoredAnswers :
       toLowerCase(trim(toLowerCase(trim(x)))) = toLowerCase(trim(x))

C13_Witness ==
  \E s \in Sessions :
    /\ typed[s] = <<" ", "a">>
    /\ answers[s] = <<TRUE>>
    /\ Judged(s).answer = <<"A">>
====
